---- MODULE Spec2Model ----
(***************************************************************************)
(* Model of ssh2.py: the SSH2 session driver (make_chan, execute, __del__) *)
(* and the output parser (_parse, parse_output).                           *)
(*                                                                         *)
(* The paramiko client and channel are the environment.  Every call the    *)
(* driver makes on them (connect, invoke_shell, recv, recv_ready, send,    *)
(* close) is a step whose outcome the environment chooses.                 *)
(*                                                                         *)
(* Bytes are modelled as sequences of tokens.  A chunk is what one recv    *)
(* call returns:                                                           *)
(*   "ban"  text that begins with b'\r\r\n' or b'*' (welcome or warning)   *)
(*   "prm"  a line that begins with b'<SH-' (the shell prompt)             *)
(*   "mor"  text that holds b' More ' (the pagination marker)              *)
(*   "r1", "r2"  table rows                                                *)
(* so data.startswith(b'<SH-') is "the first token is prm", and            *)
(* b' More ' in data is "some token is mor".                               *)
(***************************************************************************)
EXTENDS Naturals, Sequences, FiniteSets

VARIABLES
    ssh,        \* self.ssh: 0 (None) or the id of an SSHClient object
    chan,       \* self.chan: 0 (None) or the id of a channel
    nSsh,       \* number of SSHClient objects created so far
    nChan,      \* number of channels opened so far
    sshLive,    \* ids of the clients whose connect() succeeded (a transport was acquired)
    sshCloses,  \* number of close() calls on each client
    chanCloses, \* number of close() calls on each channel
    pc,         \* "idle", or the call of _execute the driver is blocked in
    command,    \* the argument of the running execute
    data,       \* local `data` of the running _execute
    results,    \* local `results` of the running _execute
    log,        \* the calls the running (or last) _execute made on self.chan
    conn,       \* what the make_chan of the last operation met ("none": it ran none)
    ret,        \* how the last operation ended
    output,     \* the argument of parse_output: the lines of the raw output
    pret        \* how parse_output ended ("none": not called yet)

vars == <<ssh, chan, nSsh, nChan, sshLive, sshCloses, chanCloses, pc, command,
          data, results, log, conn, ret, output, pret>>

sessionVars == <<ssh, chan, nSsh, nChan, sshLive, sshCloses, chanCloses>>
loopVars == <<pc, command, data, results, log, conn, ret>>
parseVars == <<output, pret>>

None == 0

\* ---------------------------------------------------------------- bounds
MaxConn == 2    \* make_chan calls in one behaviour
MaxRecv == 3    \* chunks the peer delivers during one execute
MaxLines == 5   \* lines of the raw output given to parse_output
MaxRows == 3    \* table lines between the header and the closing prompt

\* ---------------------------------------------------------------- inputs
Commands == {"dis mac-address"}

Chunks ==
    { <<>>, <<"ban">>, <<"prm">>, <<"mor">>, <<"r1">>, <<"r2">>,
      <<"ban", "prm">>, <<"r1", "mor">>, <<"prm", "mor">>, <<"r2", "prm">> }

ConnectOutcomes == {"ok", "socket_error", "auth_error", "ssh_error", "shell_error"}

\* ---------------------------------------------------------------- helpers
Last(s) == s[Len(s)]

Handles == 1..MaxConn

NoRet == [op |-> "none", kind |-> "none", exc |-> "", flag |-> FALSE, bytes |-> <<>>]

Returned(o, f, b) == [op |-> o, kind |-> "return", exc |-> "", flag |-> f, bytes |-> b]

Raised(o, e) == [op |-> o, kind |-> "raise", exc |-> e, flag |-> FALSE, bytes |-> <<>>]

Pending(o) == [op |-> o, kind |-> "pending", exc |-> "", flag |-> FALSE, bytes |-> <<>>]

RecvEv(site, d) == [op |-> "recv", site |-> site, data |-> d]

TimeoutEv(site) == [op |-> "timeout", site |-> site, data |-> <<>>]

SendEv(d) == [op |-> "send", site |-> "-", data |-> d]

\* data.startswith(b'\r\r\n') or data.startswith(b'*')
StartsBanner(d) == Len(d) > 0 /\ d[1] = "ban"

\* data.startswith(b'<SH-')
StartsPrompt(d) == Len(d) > 0 /\ d[1] = "prm"

\* b' More ' in data
HasMore(d) == \E i \in 1..Len(d) : d[i] = "mor"

NumRecv(l) == Cardinality({i \in 1..Len(l) : l[i].op = "recv"})

\* ---------------------------------------------------------------- the session
connected == chan # None

\* make_chan whose exception handlers forget `self.chan = None`
make_chan_keeps_chan(o) ==
    /\ nSsh' = nSsh + 1
    /\ ssh' = nSsh + 1
    /\ conn' = o
    /\ IF o = "ok"
         THEN /\ sshLive' = sshLive \cup {nSsh + 1}
              /\ nChan' = nChan + 1
              /\ chan' = nChan + 1
         ELSE /\ sshLive' = IF o = "shell_error" THEN sshLive \cup {nSsh + 1} ELSE sshLive
              /\ nChan' = nChan
              /\ chan' = chan
    /\ UNCHANGED <<sshCloses, chanCloses>>

\* make_chan met outcome o: a new SSHClient replaces self.ssh; connect and
\* invoke_shell either both succeed, or one of them raises and the handler
\* sets self.chan to None.
make_chan(o) ==
    /\ nSsh' = nSsh + 1
    /\ ssh' = nSsh + 1
    /\ conn' = o
    /\ IF o = "ok"
         THEN /\ sshLive' = sshLive \cup {nSsh + 1}
              /\ nChan' = nChan + 1
              /\ chan' = nChan + 1
         ELSE /\ sshLive' = IF o = "shell_error" THEN sshLive \cup {nSsh + 1} ELSE sshLive
              /\ nChan' = nChan
              /\ chan' = None
    /\ UNCHANGED <<sshCloses, chanCloses>>

Connect ==
    /\ pc = "idle"
    /\ nSsh < MaxConn
    /\ \E o \in ConnectOutcomes : make_chan(o)
    /\ ret' = Returned("connect", chan' # None, <<>>)
    /\ log' = <<>>
    /\ UNCHANGED <<pc, command, data, results>>
    /\ UNCHANGED parseVars

\* __del__ that closes self.ssh and forgets `self.ssh = None`
ShutdownKeepsSsh ==
    /\ pc = "idle"
    /\ chanCloses' = IF chan # None
                       THEN [chanCloses EXCEPT ![chan] = @ + 1]
                       ELSE chanCloses
    /\ chan' = None
    /\ sshCloses' = IF ssh # None
                      THEN [sshCloses EXCEPT ![ssh] = @ + 1]
                      ELSE sshCloses
    /\ ssh' = ssh
    /\ conn' = "none"
    /\ ret' = Returned("shutdown", ret.op = "shutdown", <<>>)
    /\ log' = <<>>
    /\ UNCHANGED <<nSsh, nChan, sshLive, pc, command, data, results>>
    /\ UNCHANGED parseVars

\* __del__
Shutdown ==
    /\ pc = "idle"
    /\ chanCloses' = IF chan # None
                       THEN [chanCloses EXCEPT ![chan] = @ + 1]
                       ELSE chanCloses
    /\ chan' = None
    /\ sshCloses' = IF ssh # None
                      THEN [sshCloses EXCEPT ![ssh] = @ + 1]
                      ELSE sshCloses
    /\ ssh' = None
    /\ conn' = "none"
    /\ ret' = Returned("shutdown", ret.op = "shutdown", <<>>)
    /\ log' = <<>>
    /\ UNCHANGED <<nSsh, nChan, sshLive, pc, command, data, results>>
    /\ UNCHANGED parseVars

\* ---------------------------------------------------------------- _execute
\* the end of an iteration without the `len(data) == 0` test
EndIterationNoBreak(l, d) ==
    /\ log' = l
    /\ pc' = "recv"
    /\ ret' = ret
    /\ results' = results \o d
    /\ data' = d

\* the end of an iteration with `results = data` for `results += data`
EndIterationOverwrite(l, d) ==
    /\ log' = l
    /\ IF Len(d) = 0
         THEN /\ pc' = "idle"
              /\ ret' = Returned("execute", FALSE, results)
              /\ results' = <<>>
              /\ data' = <<>>
         ELSE /\ pc' = "recv"
              /\ ret' = ret
              /\ results' = d
              /\ data' = d

\* lines 92-99: the end of one iteration, `data` being d and l the calls made
\* so far: a zero-length chunk breaks the loop and results is returned,
\* anything else is appended to results.
EndIteration(l, d) ==
    /\ log' = l
    /\ IF Len(d) = 0
         THEN /\ pc' = "idle"
              /\ ret' = Returned("execute", FALSE, results)
              /\ results' = <<>>
              /\ data' = <<>>
         ELSE /\ pc' = "recv"
              /\ ret' = ret
              /\ results' = results \o d
              /\ data' = d

\* lines 87-95: the pagination test and what follows it
CheckMore(l, d) ==
    IF HasMore(d)
      THEN /\ log' = Append(l, SendEv(<<"\n">>))
           /\ data' = d
           /\ pc' = "ready_more"
           /\ UNCHANGED <<results, ret>>
      ELSE EndIteration(l, d)

\* a recv timeout that no handler catches
RecvTimeoutRaises(site) ==
    /\ pc' = "idle"
    /\ log' = Append(log, TimeoutEv(site))
    /\ ret' = Raised("execute", "socket.timeout")
    /\ results' = <<>>
    /\ data' = <<>>

\* lines 96-99: socket.timeout raised by a recv ends the loop, results is returned
RecvTimeout(site) ==
    /\ pc' = "idle"
    /\ log' = Append(log, TimeoutEv(site))
    /\ ret' = Returned("execute", FALSE, results)
    /\ results' = <<>>
    /\ data' = <<>>

\* lines 72-95: the loop's recv returns chunk d
RecvMain(d) ==
    /\ pc = "recv"
    /\ NumRecv(log) < MaxRecv
    /\ IF StartsBanner(d)
         THEN /\ log' = Append(log, RecvEv("main", d))
              /\ data' = d
              /\ UNCHANGED <<pc, results, ret>>
         ELSE IF StartsPrompt(d)
           THEN /\ log' = log \o <<RecvEv("main", d), SendEv(<<command, "\n">>)>>
                /\ data' = d
                /\ pc' = "ready_prompt"
                /\ UNCHANGED <<results, ret>>
           ELSE CheckMore(Append(log, RecvEv("main", d)), d)
    /\ UNCHANGED <<command, conn>>
    /\ UNCHANGED sessionVars
    /\ UNCHANGED parseVars

RecvMainTimeout ==
    /\ pc = "recv"
    /\ RecvTimeout("main")
    /\ UNCHANGED <<command, conn>>
    /\ UNCHANGED sessionVars
    /\ UNCHANGED parseVars

\* line 84: recv_ready() after the command was sent; when it is false the
\* prompt chunk itself goes on to the pagination test
ReadyPrompt(ready) ==
    /\ pc = "ready_prompt"
    /\ IF ready
         THEN /\ NumRecv(log) < MaxRecv
              /\ pc' = "recv_prompt"
              /\ UNCHANGED <<data, results, log, ret>>
         ELSE CheckMore(log, data)
    /\ UNCHANGED <<command, conn>>
    /\ UNCHANGED sessionVars
    /\ UNCHANGED parseVars

\* line 85: the extra recv after the command was sent returns chunk d
RecvPrompt(d) ==
    /\ pc = "recv_prompt"
    /\ CheckMore(Append(log, RecvEv("prompt", d)), d)
    /\ UNCHANGED <<command, conn>>
    /\ UNCHANGED sessionVars
    /\ UNCHANGED parseVars

RecvPromptTimeout ==
    /\ pc = "recv_prompt"
    /\ RecvTimeout("prompt")
    /\ UNCHANGED <<command, conn>>
    /\ UNCHANGED sessionVars
    /\ UNCHANGED parseVars

\* line 89: recv_ready() after the newline was sent
ReadyMore(ready) ==
    /\ pc = "ready_more"
    /\ IF ready
         THEN /\ NumRecv(log) < MaxRecv
              /\ pc' = "recv_more"
              /\ UNCHANGED <<data, results, log, ret>>
         ELSE EndIteration(log, data)
    /\ UNCHANGED <<command, conn>>
    /\ UNCHANGED sessionVars
    /\ UNCHANGED parseVars

\* line 90: the extra recv after the newline was sent returns chunk d
RecvMore(d) ==
    /\ pc = "recv_more"
    /\ EndIteration(Append(log, RecvEv("more", d)), d)
    /\ UNCHANGED <<command, conn>>
    /\ UNCHANGED sessionVars
    /\ UNCHANGED parseVars

RecvMoreTimeout ==
    /\ pc = "recv_more"
    /\ RecvTimeout("more")
    /\ UNCHANGED <<command, conn>>
    /\ UNCHANGED sessionVars
    /\ UNCHANGED parseVars

\* lines 65-66: _execute starts; self.chan.settimeout raises AttributeError
\* when self.chan is None
StartLoop(cmd, c) ==
    /\ command' = cmd
    /\ data' = <<>>
    /\ results' = <<>>
    /\ log' = <<>>
    /\ IF c = None
         THEN /\ pc' = "idle"
              /\ ret' = Raised("execute", "AttributeError")
         ELSE /\ pc' = "recv"
              /\ ret' = Pending("execute")

\* execute(command): make_chan when not connected, then _execute
Execute(cmd) ==
    /\ pc = "idle"
    /\ IF ~connected
         THEN /\ nSsh < MaxConn
              /\ \E o \in ConnectOutcomes : make_chan(o)
         ELSE /\ conn' = "none"
              /\ UNCHANGED sessionVars
    /\ StartLoop(cmd, chan')
    /\ UNCHANGED parseVars

\* ---------------------------------------------------------------- the parser
\* A line is the sequence of its whitespace-separated words; strip() and
\* decode() leave the words as they are, and a blank line has no words.
PromptLine == <<"<SH-sw>">>

MoreLine == <<"----", "More", "----">>

HeaderLine == <<"MAC", "VLAN", "State", "Port", "Aging">>

\* a line of the welcome text that precedes the first prompt
BannerLine == <<"Welcome">>

RawLines ==
    { <<>>, PromptLine, MoreLine, HeaderLine, BannerLine,
      <<"m1", "1", "Learned", "BAGG1", "Y">>,
      <<"m2", "1", "Y">> }

RECURSIVE SeqsUpTo(_, _)
SeqsUpTo(S, n) ==
    IF n = 0 THEN {<<>>}
    ELSE LET shorter == SeqsUpTo(S, n - 1)
         IN  shorter \cup {Append(q, x) : q \in {r \in shorter : Len(r) = n - 1}, x \in S}

Outputs == SeqsUpTo(RawLines, MaxLines)

PortWords == {"BAGG0", "BAGG1", "BAGG48", "BAGG49"}

NoResults == [k \in PortWords |-> <<>>]

PNone == [kind |-> "none", exc |-> "", items |-> <<>>, value |-> NoResults]

PReturn(v) == [kind |-> "return", exc |-> "", items |-> <<>>, value |-> v]

PItems(its) == [kind |-> "return", exc |-> "", items |-> its, value |-> NoResults]

PRaise(e) == [kind |-> "raise", exc |-> e, items |-> <<>>, value |-> NoResults]

\* line 132: [x.strip().decode() for x in output.splitlines() if x.strip()]
Decoded(out) == SelectSeq(out, LAMBDA l : Len(l) > 0)

\* line.startswith('<SH-')
IsPromptLine(line) == Len(line) > 0 /\ line[1] = "<SH-sw>"

\* line 114: the positions of the prompt lines
PromptNums(d) == {i \in 1..Len(d) : IsPromptLine(d[i])}

\* sorted(nums)[1], as a position counted from 1
SecondPrompt(d) ==
    CHOOSE i \in PromptNums(d) : Cardinality({j \in PromptNums(d) : j < i}) = 1

\* line 115: fewer prompt lines than this and _parse raises
MinPrompts == 2

\* line.split(' Y'): the line is cut at every word "Y" that follows a space
RECURSIVE SplitY(_, _, _)
SplitY(line, i, cur) ==
    IF i > Len(line) THEN <<cur>>
    ELSE IF i >= 2 /\ line[i] = "Y" THEN <<cur>> \o SplitY(line, i + 1, <<>>)
    ELSE SplitY(line, i + 1, Append(cur, line[i]))

\* line 123: [x.strip() for x in line.split(' Y') if x.strip()]
Parts(line) == SelectSeq(SplitY(line, 1, <<>>), LAMBDA q : Len(q) > 0)

\* lines 120-123: the items of the lines that are neither the pagination line
\* nor a prompt line
RECURSIVE Items(_)
Items(d) ==
    IF Len(d) = 0 THEN <<>>
    ELSE IF Head(d) = MoreLine \/ IsPromptLine(Head(d)) THEN Items(Tail(d))
    ELSE Parts(Head(d)) \o Items(Tail(d))

HasAging(item) == \E i \in 1..Len(item) : item[i] = "Aging"

\* item.split('Aging')[1]: what lies between the first 'Aging' and the next
AfterAging(item) ==
    LET first == CHOOSE i \in 1..Len(item) :
                     item[i] = "Aging" /\ \A j \in 1..(i - 1) : item[j] # "Aging"
        rest == SubSeq(item, first + 1, Len(item))
        stop == {i \in 1..Len(rest) : rest[i] = "Aging"}
    IN  IF stop = {} THEN rest
        ELSE SubSeq(rest, 1, (CHOOSE i \in stop : \A j \in stop : i <= j) - 1)

\* _parse with the least number of prompt lines it accepts
ParseWith(d, least) ==
    LET nums == PromptNums(d)
        kept == IF Cardinality(nums) > 2 THEN SubSeq(d, 1, SecondPrompt(d) - 1) ELSE d
        r == Items(kept)
    IN  IF Cardinality(nums) < least THEN PRaise("OSError")
        ELSE IF Len(r) = 0 THEN PRaise("IndexError")          \* ret.pop(0)
        ELSE IF ~HasAging(Head(r)) THEN PRaise("IndexError")  \* item.split('Aging')[1]
        ELSE PItems(<<AfterAging(Head(r))>> \o Tail(r))

\* _parse without the cut of line 118 (`len(nums) > 3` for `len(nums) > 2`)
ParseNoTruncation(d) ==
    LET nums == PromptNums(d)
        kept == IF Cardinality(nums) > 3 THEN SubSeq(d, 1, SecondPrompt(d) - 1) ELSE d
        r == Items(kept)
    IN  IF Cardinality(nums) < MinPrompts THEN PRaise("OSError")
        ELSE IF Len(r) = 0 THEN PRaise("IndexError")
        ELSE IF ~HasAging(Head(r)) THEN PRaise("IndexError")
        ELSE PItems(<<AfterAging(Head(r))>> \o Tail(r))

\* _parse with `len(nums) < 1` for `len(nums) < 2`
ParseAcceptsOnePrompt(d) == ParseWith(d, 1)

_parse(d) == ParseWith(d, MinPrompts)

\* line 139: the inclusive upper limit of the numeral after 'BAGG'
MaxBagg == 48

HasBagg(w) == w \in {"BAGG0", "BAGG1", "BAGG48", "BAGG49", "BAGGx"}

IsNumeral(w) == w \in {"BAGG0", "BAGG1", "BAGG48", "BAGG49"}

\* int(w.split('BAGG')[1])
BaggNum(w) ==
    CASE w = "BAGG0" -> 0
      [] w = "BAGG1" -> 1
      [] w = "BAGG48" -> 48
      [] w = "BAGG49" -> 49

\* the loop with `< 48` for `<= 48`
RECURSIVE AggregateBelowMax(_, _)
AggregateBelowMax(its, acc) ==
    IF Len(its) = 0 THEN PReturn(acc)
    ELSE LET x == Head(its) IN
         IF Len(x) <= 3 THEN AggregateBelowMax(Tail(its), acc)
         ELSE IF ~HasBagg(x[4]) THEN PRaise("IndexError")
         ELSE IF ~IsNumeral(x[4]) THEN PRaise("ValueError")
         ELSE IF BaggNum(x[4]) < MaxBagg
           THEN AggregateBelowMax(Tail(its), [acc EXCEPT ![x[4]] = Append(@, x[1])])
           ELSE AggregateBelowMax(Tail(its), acc)

\* the loop with `insert(0, x[0])` for `append(x[0])`
RECURSIVE AggregatePrepend(_, _)
AggregatePrepend(its, acc) ==
    IF Len(its) = 0 THEN PReturn(acc)
    ELSE LET x == Head(its) IN
         IF Len(x) <= 3 THEN AggregatePrepend(Tail(its), acc)
         ELSE IF ~HasBagg(x[4]) THEN PRaise("IndexError")
         ELSE IF ~IsNumeral(x[4]) THEN PRaise("ValueError")
         ELSE IF BaggNum(x[4]) <= MaxBagg
           THEN AggregatePrepend(Tail(its), [acc EXCEPT ![x[4]] = <<x[1]>> \o @])
           ELSE AggregatePrepend(Tail(its), acc)

\* lines 133-140: the loop over the items, acc being `results`
RECURSIVE Aggregate(_, _)
Aggregate(its, acc) ==
    IF Len(its) = 0 THEN PReturn(acc)
    ELSE LET x == Head(its) IN
         IF Len(x) <= 3 THEN Aggregate(Tail(its), acc)
         ELSE IF ~HasBagg(x[4]) THEN PRaise("IndexError")
         ELSE IF ~IsNumeral(x[4]) THEN PRaise("ValueError")
         ELSE IF BaggNum(x[4]) <= MaxBagg
           THEN Aggregate(Tail(its), [acc EXCEPT ![x[4]] = Append(@, x[1])])
           ELSE Aggregate(Tail(its), acc)

parse_output(out) ==
    LET r == _parse(Decoded(out)) IN
      IF r.kind = "raise" THEN r ELSE Aggregate(r.items, NoResults)

ParseOutput ==
    /\ pret.kind = "none"
    /\ pret' = parse_output(output)
    /\ UNCHANGED output
    /\ UNCHANGED sessionVars
    /\ UNCHANGED loopVars

Init ==
    /\ ssh = None
    /\ chan = None
    /\ nSsh = 0
    /\ nChan = 0
    /\ sshLive = {}
    /\ sshCloses = [h \in Handles |-> 0]
    /\ chanCloses = [h \in Handles |-> 0]
    /\ pc = "idle"
    /\ command = ""
    /\ data = <<>>
    /\ results = <<>>
    /\ log = <<>>
    /\ conn = "none"
    /\ ret = NoRet
    /\ output = <<>>
    /\ pret = PNone

Next ==
    \/ Connect
    \/ Shutdown
    \/ \E cmd \in Commands : Execute(cmd)
    \/ \E d \in Chunks : RecvMain(d)
    \/ RecvMainTimeout
    \/ \E r \in BOOLEAN : ReadyPrompt(r)
    \/ \E d \in Chunks : RecvPrompt(d)
    \/ RecvPromptTimeout
    \/ \E r \in BOOLEAN : ReadyMore(r)
    \/ \E d \in Chunks : RecvMore(d)
    \/ RecvMoreTimeout

Spec == Init /\ [][Next]_vars

\* the parser alone, on every raw output within the bounds
ParseInit ==
    /\ ssh = None
    /\ chan = None
    /\ nSsh = 0
    /\ nChan = 0
    /\ sshLive = {}
    /\ sshCloses = [h \in Handles |-> 0]
    /\ chanCloses = [h \in Handles |-> 0]
    /\ pc = "idle"
    /\ command = ""
    /\ data = <<>>
    /\ results = <<>>
    /\ log = <<>>
    /\ conn = "none"
    /\ ret = NoRet
    /\ output \in Outputs
    /\ pret = PNone

ParseNext == ParseOutput

ParseSpec == ParseInit /\ [][ParseNext]_vars

\* the parser on the output of one complete run of the command: the prompt
\* with the echoed command, the header, the table lines, the closing prompt
RowLines ==
    { <<"m1", "1", "Learned", "BAGG1", "Y">>,
      <<"m2", "1", "Learned", "BAGG1", "Y">>,
      <<"m0", "1", "Learned", "BAGG0", "Y">>,
      <<"m48", "1", "Learned", "BAGG48", "Y">>,
      <<"m49", "1", "Learned", "BAGG49", "Y">>,
      <<"ms", "1", "Y">>,
      <<"ml", "1", "Learned", "BAGG1", "extra", "Y">>,
      <<"mg", "1", "Learned", "GE1", "Y">>,
      <<"mx", "1", "Learned", "BAGGx", "Y">>,
      MoreLine }

TableOutputs ==
    {<<PromptLine, HeaderLine>> \o r \o <<PromptLine>> : r \in SeqsUpTo(RowLines, MaxRows)}

RowInit ==
    /\ ssh = None
    /\ chan = None
    /\ nSsh = 0
    /\ nChan = 0
    /\ sshLive = {}
    /\ sshCloses = [h \in Handles |-> 0]
    /\ chanCloses = [h \in Handles |-> 0]
    /\ pc = "idle"
    /\ command = ""
    /\ data = <<>>
    /\ results = <<>>
    /\ log = <<>>
    /\ conn = "none"
    /\ ret = NoRet
    /\ output \in TableOutputs
    /\ pret = PNone

RowNext == ParseOutput

RowSpec == RowInit /\ [][RowNext]_vars

\* ---------------------------------------------------------------- properties
RECURSIVE Flatten(_)
Flatten(ss) == IF Len(ss) = 0 THEN <<>> ELSE Head(ss) \o Flatten(Tail(ss))

RECURSIVE IsSubseq(_, _)
IsSubseq(s, t) ==
    IF Len(s) = 0 THEN TRUE
    ELSE IF Len(t) = 0 THEN FALSE
    ELSE IF Head(s) = Head(t) THEN IsSubseq(Tail(s), Tail(t))
    ELSE IsSubseq(s, Tail(t))

\* the chunk holds a line that starts with the prompt
HasPromptLine(d) == \E i \in 1..Len(d) : d[i] = "prm"

IsRecv(e) == e.op = "recv"

Count(l, P(_)) == Cardinality({i \in 1..Len(l) : P(l[i])})

IsCommandSend(e) == e.op = "send" /\ e.data = <<command, "\n">>

IsNewlineSend(e) == e.op = "send" /\ e.data = <<"\n">>

IsPromptChunk(e) == IsRecv(e) /\ HasPromptLine(e.data)

IsMoreChunk(e) == IsRecv(e) /\ HasMore(e.data)

\* a received chunk that is non-empty, holds no prompt line and no marker
IsPlainChunk(e) ==
    IsRecv(e) /\ Len(e.data) > 0 /\ ~HasPromptLine(e.data) /\ ~HasMore(e.data)

IsPlainNoBanner(e) == IsPlainChunk(e) /\ ~StartsBanner(e.data)

RECURSIVE DataOf(_)
DataOf(l) == IF Len(l) = 0 THEN <<>> ELSE <<Head(l).data>> \o DataOf(Tail(l))

\* what _execute has accumulated: results while it runs, its return value after
Accumulated == IF pc = "idle" THEN ret.bytes ELSE results

ExecuteReturned == pc = "idle" /\ ret.op = "execute" /\ ret.kind = "return"

\* C1: an execute whose connect attempt failed does not raise, and leaves the
\* session not connected.
C1_FailedConnectDoesNotRaise ==
    (ret.op = "execute" /\ conn \notin {"none", "ok"})
        => (ret.kind # "raise" /\ ~connected)

\* C2: a recv that times out, at any of the three recv calls, is the last call
\* of the loop, and execute returns the bytes accumulated before it.
C2_TimeoutReturnsAccumulated ==
    [][\A i \in 1..Len(log') :
          (log' # log /\ log'[i].op = "timeout")
              => /\ i = Len(log')
                 /\ Len(log') = Len(log) + 1
                 /\ pc' = "idle"
                 /\ ret' = Returned("execute", FALSE, results)]_vars

\* C2 witness: the extra recv after a pagination response timed out with rows
\* already accumulated.
C2_Witness ==
    /\ ExecuteReturned
    /\ Len(log) > 0
    /\ Last(log).op = "timeout"
    /\ Last(log).site # "main"
    /\ ret.bytes # <<>>

\* C3: a zero-length chunk, from any of the three recv calls, is the last call
\* made on the channel, and execute returns the bytes accumulated before it.
C3_EmptyChunkReturnsAccumulated ==
    [][\A i \in 1..Len(log') :
          (log' # log /\ IsRecv(log'[i]) /\ log'[i].data = <<>>)
              => /\ i = Len(log')
                 /\ Len(log') = Len(log) + 1
                 /\ pc' = "idle"
                 /\ ret' = Returned("execute", FALSE, results)]_vars

\* C3 witness: a zero-length chunk from an extra recv ended an execute that had
\* accumulated bytes.
C3_Witness ==
    /\ ExecuteReturned
    /\ Len(log) > 0
    /\ IsRecv(Last(log))
    /\ Last(log).data = <<>>
    /\ Last(log).site # "main"
    /\ ret.bytes # <<>>

\* C4: whenever the loop is back at its recv, the command has been sent once
\* for every chunk received so far that holds a prompt line.
C4_EveryPromptChunkAnswered ==
    pc = "recv" => Count(log, IsCommandSend) = Count(log, IsPromptChunk)

\* C5: whenever the loop is back at its recv, a newline has been sent once for
\* every chunk received so far that holds the pagination marker.
C5_EveryMoreChunkAnswered ==
    pc = "recv" => Count(log, IsNewlineSend) = Count(log, IsMoreChunk)

\* C6 as stated: every received chunk that is non-empty, holds no prompt line
\* and no pagination marker is in the accumulated bytes, in order of receipt.
C6_PlainChunksAccumulated ==
    ret.op = "execute" /\ ret.kind \in {"pending", "return"}
        => IsSubseq(Flatten(DataOf(SelectSeq(log, IsPlainChunk))), Accumulated)

\* C6 amended: every received chunk that is non-empty, holds no prompt line and
\* no pagination marker, and does not begin with b'\r\r\n' or b'*', is in the
\* accumulated bytes, in order of receipt.
C6_PlainNoBannerChunksAccumulated ==
    ret.op = "execute" /\ ret.kind \in {"pending", "return"}
        => IsSubseq(Flatten(DataOf(SelectSeq(log, IsPlainNoBanner))), Accumulated)

\* C6 witness: execute returned two different rows, one of them delivered by
\* an extra recv.
C6_Witness ==
    /\ ExecuteReturned
    /\ Flatten(DataOf(SelectSeq(log, IsPlainNoBanner))) = <<"r1", "r2">>
    /\ \E i \in 1..Len(log) : IsPlainNoBanner(log[i]) /\ log[i].site # "main"

\* C7: connect returns normally; on a failure it returns false and leaves the
\* channel absent; it returns true exactly when a channel was opened, and that
\* channel is then self.chan.
C7_ConnectReportsChannel ==
    ret.op = "connect"
        => /\ ret.kind = "return"
           /\ conn # "ok" => (~ret.flag /\ chan = None /\ ~connected)
           /\ ret.flag <=> conn = "ok"
           /\ ret.flag => (chan = nChan /\ connected)

\* C7 witness: a connect that failed on a session that had a channel
C7_Witness ==
    /\ ret.op = "connect"
    /\ conn = "auth_error"
    /\ nChan > 0

\* C8: after shutdown, however often and in whatever state it was called, the
\* session is not connected and holds neither channel nor transport.
C8_ShutdownLeavesNothing ==
    ret.op = "shutdown"
        => /\ ret.kind = "return"
           /\ ~connected
           /\ chan = None
           /\ ssh = None

\* C8 witness: shutdown called twice in succession after a connect that failed
C8_Witness ==
    /\ ret.op = "shutdown"
    /\ ret.flag
    /\ nSsh > 0
    /\ nChan = 0

\* C9: once shutdown has run, every transport and every channel the session
\* acquired has been closed exactly once.
C9_EveryHandleClosedOnce ==
    ret.op = "shutdown"
        => /\ \A h \in sshLive : sshCloses[h] = 1
           /\ \A c \in 1..nChan : chanCloses[c] = 1

\* C10: on an output with fewer than two prompt lines parse_output raises the
\* OSError of _parse and returns nothing.
C10_FewerThanTwoPromptsRaises ==
    (pret.kind # "none" /\ Cardinality(PromptNums(Decoded(output))) < 2)
        => pret = PRaise("OSError")

\* C10 witness: parse_output raised on an output with exactly one prompt line,
\* the header and a row.
C10_Witness ==
    /\ pret.kind = "raise"
    /\ Cardinality(PromptNums(Decoded(output))) = 1
    /\ \E i \in 1..Len(output) : output[i] = HeaderLine
    /\ \E i \in 1..Len(output) : Len(output[i]) > 0 /\ output[i][1] = "m1"

NumPrompts(out) == Cardinality(PromptNums(out))

FirstPrompt(out) == CHOOSE i \in PromptNums(out) : \A j \in PromptNums(out) : i <= j

ParseDone == pret.kind # "none"

\* C11 as stated: on an output with exactly one prompt line the parser goes on
\* and returns.
C11_OnePromptAccepted ==
    (ParseDone /\ NumPrompts(output) = 1) => pret.kind = "return"

\* C11 amended: on an output with exactly one prompt line the parser raises
\* the OSError of _parse, whatever the other lines are.
C11_OnePromptRaises ==
    (ParseDone /\ NumPrompts(output) = 1) => pret = PRaise("OSError")

\* C11 witness: the stream was cut short after the rows: prompt, header, row
\* and no second prompt.
C11_Witness ==
    /\ pret = PRaise("OSError")
    /\ NumPrompts(output) = 1
    /\ Len(output) >= 3
    /\ output[1] = PromptLine
    /\ output[2] = HeaderLine
    /\ Len(output[3]) > 0
    /\ output[3][1] = "m1"

\* C12: on an output with three or more prompt lines the parser ends as it
\* does on the same output cut after its second prompt line.
C12_SameAsCutAtSecondPrompt ==
    (ParseDone /\ NumPrompts(output) >= 3)
        => pret = parse_output(SubSeq(output, 1, SecondPrompt(output)))

\* C12 witness: the command ran twice; the second run has a row the first
\* has not, and the result is that of the first run.
C12_Witness ==
    /\ pret.kind = "return"
    /\ output = <<PromptLine, HeaderLine, PromptLine,
                  <<"m1", "1", "Learned", "BAGG1", "Y">>, PromptLine>>
    /\ pret.value["BAGG1"] = <<>>

\* C20: on an output with two or more prompt lines the parser ends as it does
\* on the lines from the first prompt line to the second alone.
C20_OnlyBetweenPromptsCounts ==
    (ParseDone /\ NumPrompts(output) >= 2)
        => pret = parse_output(SubSeq(output, FirstPrompt(output), SecondPrompt(output)))

\* the table lines of an output of RowSpec
Rows == SubSeq(output, 3, Len(output) - 1)

RECURSIVE FirstWords(_)
FirstWords(ls) == IF Len(ls) = 0 THEN <<>> ELSE <<Head(ls)[1]>> \o FirstWords(Tail(ls))

InValue(w, v) == \E i \in 1..Len(v) : v[i] = w

\* a line with the five fields address, vlan, state, port, age
FiveFields(l) == Len(l) = 5

\* a five-field line whose port is BAGG with a numeral from 1 to 48
ValidRow(l) == FiveFields(l) /\ IsNumeral(l[4]) /\ BaggNum(l[4]) \in 1..48

\* C13: when every table line is a valid row or has the wrong number of
\* fields, the parser returns, for every port, the addresses of the valid rows
\* of that port in their order, and nothing else.
C13_ExactlyTheValidRows ==
    (ParseDone /\ \A i \in 1..Len(Rows) : ValidRow(Rows[i]) \/ ~FiveFields(Rows[i]))
        => /\ pret.kind = "return"
           /\ \A k \in PortWords :
                 pret.value[k] =
                     FirstWords(SelectSeq(Rows, LAMBDA l : ValidRow(l) /\ l[4] = k))

\* C14: a table line with fewer or with more than five fields adds nothing to
\* the result.
C14_WrongArityAddsNothing ==
    pret.kind = "return"
        => \A i \in 1..Len(Rows) :
              ~FiveFields(Rows[i]) => \A k \in PortWords : ~InValue(Rows[i][1], pret.value[k])

\* C15 as stated: a five-field row with a BAGG numeral is in the result
\* exactly when the numeral lies in 1..48.
C15_KeptIffWithin1To48 ==
    pret.kind = "return"
        => \A i \in 1..Len(Rows) :
              (FiveFields(Rows[i]) /\ IsNumeral(Rows[i][4]))
                  => (InValue(Rows[i][1], pret.value[Rows[i][4]])
                          <=> BaggNum(Rows[i][4]) \in 1..48)

\* C15 amended: a five-field row with a BAGG numeral is in the result exactly
\* when the numeral is at most 48.
C15_KeptIffAtMost48 ==
    pret.kind = "return"
        => \A i \in 1..Len(Rows) :
              (FiveFields(Rows[i]) /\ IsNumeral(Rows[i][4]))
                  => (InValue(Rows[i][1], pret.value[Rows[i][4]])
                          <=> BaggNum(Rows[i][4]) <= 48)

\* C15 witness: rows with the numerals 0, 48 and 49; the first two are kept.
C15_Witness ==
    /\ pret.kind = "return"
    /\ FirstWords(Rows) = <<"m0", "m48", "m49">>
    /\ pret.value["BAGG0"] = <<"m0">>
    /\ pret.value["BAGG48"] = <<"m48">>
    /\ pret.value["BAGG49"] = <<>>

\* C16: once the prompt check has passed, the parser returns whatever the
\* table lines are.
C16_BadLineNeverAborts ==
    ParseDone => pret.kind = "return"

\* C17: the addresses listed for a port are in the order of their rows.
C17_GroupingStable ==
    pret.kind = "return"
        => \A k \in PortWords :
              IsSubseq(pret.value[k],
                       FirstWords(SelectSeq(Rows, LAMBDA l : Len(l) >= 4 /\ l[4] = k)))

\* C17 witness: two rows of one port with a row of another port between them
C17_Witness ==
    /\ pret.kind = "return"
    /\ FirstWords(Rows) = <<"m2", "m48", "m1">>
    /\ pret.value["BAGG1"] = <<"m2", "m1">>

\* the chunks after whose receipt the command or a newline was sent, in order
\* of receipt; every other call counts as the empty chunk
TriggerData(l) ==
    [i \in 1..Len(l) |->
        IF IsRecv(l[i]) /\ i < Len(l) /\ l[i + 1].op = "send"
          THEN l[i].data
          ELSE <<>>]

\* C18: once the loop is back at its recv or has returned, the bytes of every
\* chunk that made it send the command or a newline are in the accumulated
\* bytes, in order of receipt.
C18_TriggerChunksAccumulated ==
    (ret.op = "execute" /\ ret.kind \in {"pending", "return"} /\ pc \in {"recv", "idle"})
        => IsSubseq(Flatten(TriggerData(log)), Accumulated)

\* ---------------------------------------------------------------- one peer
\* _execute against a peer that prints its prompt at login, answers every
\* command with lines that end in a prompt, pages a long answer (the next page
\* follows a newline), and is silent otherwise.  What the peer has written is
\* a function of what was sent to it; the transport cuts it into chunks as it
\* likes, and a recv times out only when nothing is left to deliver.
PeerCommands ==
    {"dis mac-address", "dis version", "dis arp", "undo info-center enable"}

\* the first page of the peer's answer to a command
Answer(cmd) ==
    IF cmd = "dis mac-address" THEN <<"r1", "mor">>
    ELSE IF cmd = "dis version" THEN <<"r1", "prm">>
    ELSE IF cmd = "dis arp" THEN <<"r1", "r2", "prm">>
    ELSE <<"prm">>

\* the page that follows a newline
NextPage == <<"r2", "prm">>

\* what the peer writes on receiving d
Reply(d) == IF d = <<"\n">> THEN NextPage ELSE Answer(d[1])

\* everything the peer has written after the calls l
Stream(l) ==
    <<"prm">> \o Flatten([i \in 1..Len(l) |->
                              IF l[i].op = "send" THEN Reply(l[i].data) ELSE <<>>])

\* what the peer has written and no recv of l has returned
Undelivered(l) ==
    SubSeq(Stream(l), Len(Flatten(DataOf(SelectSeq(l, IsRecv)))) + 1, Len(Stream(l)))

\* the chunks the next recv may return
PeerChunks == {SubSeq(Undelivered(log), 1, n) : n \in 1..Len(Undelivered(log))}

PeerConnect ==
    /\ ret.op = "none"
    /\ Connect
    /\ conn' = "ok"

PeerExecute(cmd) ==
    /\ ret.op \in {"none", "connect"}
    /\ Execute(cmd)
    /\ conn' \in {"none", "ok"}

PeerRecvMain == \E d \in PeerChunks : RecvMain(d)

PeerRecvMainTimeout ==
    /\ Undelivered(log) = <<>>
    /\ RecvMainTimeout

PeerReadyPrompt ==
    \E r \in BOOLEAN :
        /\ r => Undelivered(log) # <<>>
        /\ ReadyPrompt(r)

PeerRecvPrompt == \E d \in PeerChunks : RecvPrompt(d)

PeerReadyMore ==
    \E r \in BOOLEAN :
        /\ r => Undelivered(log) # <<>>
        /\ ReadyMore(r)

PeerRecvMore == \E d \in PeerChunks : RecvMore(d)

PeerInit == Init

PeerNext ==
    \/ PeerConnect
    \/ \E cmd \in PeerCommands : PeerExecute(cmd)
    \/ PeerRecvMain
    \/ PeerRecvMainTimeout
    \/ PeerReadyPrompt
    \/ PeerRecvPrompt
    \/ PeerReadyMore
    \/ PeerRecvMore

PeerSpec == PeerInit /\ [][PeerNext]_vars

\* C19: the loop never sends the command a second time with the chunk in hand
\* and the peer's undelivered answer that it had when it sent it before.  (From
\* such a send the loop and the peer can repeat what they did since the earlier
\* one: only the accumulated bytes differ, and nothing the loop tests reads
\* them.  So execute returns on every run only if this holds.)
C19_NoSendFromRepeatedState ==
    \A i, j \in 2..Len(log) :
        (i < j /\ IsCommandSend(log[i]) /\ IsCommandSend(log[j]))
            => ~ /\ log[i - 1].data = log[j - 1].data
                 /\ Undelivered(SubSeq(log, 1, i)) = Undelivered(SubSeq(log, 1, j))
====
